---- MODULE Spec2Model ----
(***************************************************************************)
(* Model of GemfileUpdater (src/index.js): the line parser, the release    *)
(* history handling, the target-version decision, the line rebuilder and   *)
(* the update() loop that drives them.                                     *)
(*                                                                         *)
(* Text is modelled as sequences of one-character strings, so that the     *)
(* regular expressions and string methods of the source are computed on    *)
(* characters, exactly as the source computes them.                        *)
(* A character that TLA+ cannot write in a string is named by its code     *)
(* point ("U+00A0").                                                       *)
(* A Number that parseInt yields is an IEEE double: NaN, an infinity, or a  *)
(* sign and the binary digits of its magnitude, rounded to 53 significant  *)
(* bits.  An instant (the time value of a Date) is a day since the epoch   *)
(* and a millisecond of that day, or invalid.                              *)
(***************************************************************************)
EXTENDS Integers, Sequences, FiniteSets, TLC

VARIABLES gemfileContent, pc, lines, idx, updatedLines, inflight, fetchLog,
          response, latestInfo, resolveLog, rebuildLog, written, writes,
          arg, ret, ret2, clock

vars == <<gemfileContent, pc, lines, idx, updatedLines, inflight, fetchLog,
          response, latestInfo, resolveLog, rebuildLog, written, writes,
          arg, ret, ret2, clock>>

-----------------------------------------------------------------------------
(* Characters and character classes of the JavaScript regular expressions. *)

SQ == "'"
DQ == "\""
LF == "\n"
CR == "\r"
TAB == "\t"
FF == "\f"
VT == "U+000B"
NBSP == "U+00A0"
BOM == "U+FEFF"
LS == "U+2028"
PS == "U+2029"

Quotes == {SQ, DQ}
\* LineTerminator of ECMAScript: what "." does not match
LineTerminators == {LF, CR, LS, PS}
\* the other members of the Unicode category Space_Separator
SpaceSeparators ==
  {"U+1680", "U+2000", "U+2001", "U+2002", "U+2003", "U+2004", "U+2005",
   "U+2006", "U+2007", "U+2008", "U+2009", "U+200A", "U+202F", "U+205F",
   "U+3000"}
\* \s, and what String.prototype.trim and trimEnd remove: WhiteSpace and
\* LineTerminator of ECMAScript
WhiteSpace ==
  {" ", TAB, VT, FF, NBSP, BOM} \cup SpaceSeparators \cup LineTerminators
DigitSeq == <<"0", "1", "2", "3", "4", "5", "6", "7", "8", "9">>
DigitChars == {DigitSeq[k] : k \in 1..10}
\* [~>=<]
OperatorChars == {"~", ">", "=", "<"}
HexLower == <<"0", "1", "2", "3", "4", "5", "6", "7", "8", "9",
              "a", "b", "c", "d", "e", "f">>
HexUpper == <<"0", "1", "2", "3", "4", "5", "6", "7", "8", "9",
              "A", "B", "C", "D", "E", "F">>
HexChars == {HexLower[k] : k \in 1..16} \cup {HexUpper[k] : k \in 1..16}
\* \w: [A-Za-z0-9_]
WordChars == DigitChars \cup
  {"a", "b", "c", "d", "e", "f", "g", "h", "i", "j", "k", "l", "m", "n", "o",
   "p", "q", "r", "s", "t", "u", "v", "w", "x", "y", "z", "_",
   "A", "B", "C", "D", "E", "F", "G", "H", "I", "J", "K", "L", "M", "N", "O",
   "P", "Q", "R", "S", "T", "U", "V", "W", "X", "Y", "Z"}

\* the Number NaN: parseInt of a text with no digit
NaN == [nan |-> TRUE, inf |-> FALSE, neg |-> FALSE, bits |-> <<>>]
\* the time value of an Invalid Date
InvalidDate == [nan |-> TRUE, day |-> 0, ms |-> 0]

\* null (and undefined where the source only tests truthiness)
Null == <<>>
\* a field that is absent from a parsed JSON object
Undefined == <<"undefined">>

\* the value of a digit, decimal or hexadecimal
DigitVal(c) == (CHOOSE k \in 1..16 : HexLower[k] = c \/ HexUpper[k] = c) - 1

-----------------------------------------------------------------------------
(* String primitives.                                                      *)

\* first position >= p of s whose character is not in set (Len(s)+1 if none)
RECURSIVE SkipIn(_, _, _)
SkipIn(s, p, set) ==
  IF p > Len(s) \/ s[p] \notin set THEN p ELSE SkipIn(s, p + 1, set)

\* first position >= p of s whose character is in set (Len(s)+1 if none)
RECURSIVE SkipNotIn(_, _, _)
SkipNotIn(s, p, set) ==
  IF p > Len(s) \/ s[p] \in set THEN p ELSE SkipNotIn(s, p + 1, set)

\* last position <= p of s whose character is not in set (0 if none)
RECURSIVE SkipBackIn(_, _, _)
SkipBackIn(s, p, set) ==
  IF p < 1 \/ s[p] \notin set THEN p ELSE SkipBackIn(s, p - 1, set)

CharAt(s, p) == IF p >= 1 /\ p <= Len(s) THEN s[p] ELSE ""

StartsWithAt(s, p, t) ==
  /\ p >= 1
  /\ p + Len(t) - 1 <= Len(s)
  /\ SubSeq(s, p, p + Len(t) - 1) = t

\* 1-based position of the first occurrence of t in s, 0 if there is none
FirstOccurrence(s, t) ==
  LET hits == {p \in 1..Len(s) : StartsWithAt(s, p, t)}
  IN  IF hits = {} THEN 0 ELSE CHOOSE p \in hits : \A q \in hits : p <= q

\* String.prototype.indexOf: 0-based, -1 if absent
indexOf(s, t) == FirstOccurrence(s, t) - 1

\* String.prototype.includes
includes(s, t) == FirstOccurrence(s, t) # 0

\* String.prototype.trimEnd
trimEnd(s) == SubSeq(s, 1, SkipBackIn(s, Len(s), WhiteSpace))

\* String.prototype.trim
trim(s) ==
  LET t == trimEnd(s)
  IN  SubSeq(t, SkipIn(t, 1, WhiteSpace), Len(t))

\* String.prototype.startsWith
startsWith(s, t) == StartsWithAt(s, 1, t)

\* String.prototype.split with a one-character separator
RECURSIVE split(_, _)
split(s, sep) ==
  LET p == SkipNotIn(s, 1, {sep})
  IN  IF p > Len(s) THEN <<s>>
      ELSE <<SubSeq(s, 1, p - 1)>> \o split(SubSeq(s, p + 1, Len(s)), sep)

\* Array.prototype.join with a one-character separator
RECURSIVE join(_, _)
join(ss, sep) ==
  IF Len(ss) = 0 THEN <<>>
  ELSE IF Len(ss) = 1 THEN ss[1]
  ELSE ss[1] \o <<sep>> \o join(Tail(ss), sep)

\* a sequence without its leading zeros
RECURSIVE StripZeros(_)
StripZeros(ds) ==
  IF Len(ds) > 0 /\ ds[1] = 0 THEN StripZeros(Tail(ds)) ELSE ds

\* the values of the digits s[p..q-1]
DigitValues(s, p, q) == [k \in 1..(q - p) |-> DigitVal(s[p + k - 1])]

\* a decimal numeral (a sequence of digit values) divided by two: the
\* quotient's digits, with the remainder carried from digit to digit
RECURSIVE HalfDigits(_, _)
HalfDigits(ds, carry) ==
  IF Len(ds) = 0 THEN <<>>
  ELSE <<(carry * 10 + ds[1]) \div 2>> \o HalfDigits(Tail(ds), ds[1] % 2)

\* the binary digits of a decimal numeral, most significant first
RECURSIVE DecimalBits(_)
DecimalBits(ds) ==
  LET n == StripZeros(ds)
  IN  IF Len(n) = 0 THEN <<>>
      ELSE DecimalBits(HalfDigits(n, 0)) \o <<n[Len(n)] % 2>>

\* the binary digits of a hexadecimal numeral, most significant first
RECURSIVE HexBits(_)
HexBits(ds) ==
  IF Len(ds) = 0 THEN <<>>
  ELSE <<ds[1] \div 8, (ds[1] \div 4) % 2, (ds[1] \div 2) % 2, ds[1] % 2>>
       \o HexBits(Tail(ds))

\* the binary numeral plus one
RECURSIVE PlusOne(_)
PlusOne(bs) ==
  IF Len(bs) = 0 THEN <<1>>
  ELSE IF bs[Len(bs)] = 0 THEN SubSeq(bs, 1, Len(bs) - 1) \o <<1>>
  ELSE PlusOne(SubSeq(bs, 1, Len(bs) - 1)) \o <<0>>

\* the significand of a double, in bits, and the length of the longest
\* finite magnitude
SignificandBits == 53
MaxMagnitudeBits == 1024

\* a magnitude (binary digits, no leading zero) rounded to the nearest
\* double, ties to even
RoundToDouble(bs) ==
  IF Len(bs) <= SignificandBits THEN bs
  ELSE LET m == SubSeq(bs, 1, SignificandBits)
           guard == bs[SignificandBits + 1]
           sticky == \E k \in (SignificandBits + 2)..Len(bs) : bs[k] = 1
           up == guard = 1 /\ (sticky \/ m[SignificandBits] = 1)
       IN  (IF up THEN PlusOne(m) ELSE m)
           \o [k \in 1..(Len(bs) - SignificandBits) |-> 0]

\* parseInt on a string, without a radix: leading white space, a sign, a
\* 0x or 0X prefix (then radix 16), and the longest run of digits of the
\* radix; NaN when that run is empty; the value is rounded to a double
parseInt(s) ==
  LET p == SkipIn(s, 1, WhiteSpace)
      signed == CharAt(s, p) \in {"+", "-"}
      p1 == IF signed THEN p + 1 ELSE p
      hex == CharAt(s, p1) = "0" /\ CharAt(s, p1 + 1) \in {"x", "X"}
      p2 == IF hex THEN p1 + 2 ELSE p1
      q == SkipIn(s, p2, IF hex THEN HexChars ELSE DigitChars)
      ds == DigitValues(s, p2, q)
      bs == RoundToDouble(IF hex THEN StripZeros(HexBits(ds)) ELSE DecimalBits(ds))
  IN  IF q = p2 THEN NaN
      ELSE [nan |-> FALSE,
            inf |-> Len(bs) > MaxMagnitudeBits,
            neg |-> CharAt(s, p) = "-",
            bits |-> IF Len(bs) > MaxMagnitudeBits THEN <<>> ELSE bs]

\* a === b on Numbers (NaN equals nothing; -0 equals +0)
StrictEq(a, b) ==
  /\ ~a.nan /\ ~b.nan
  /\ a.inf = b.inf
  /\ a.bits = b.bits
  /\ a.neg = b.neg \/ (~a.inf /\ a.bits = <<>>)

-----------------------------------------------------------------------------
(* parseGemLine                                                            *)

GEM == <<"g", "e", "m">>
GEM_SP == <<"g", "e", "m", " ">>
HASH == <<"#">>

AltSourceMarkers ==
  { <<"g", "i", "t", ":">>,
    <<"g", "i", "t", "h", "u", "b", ":">>,
    <<"p", "a", "t", "h", ":">>,
    <<"s", "o", "u", "r", "c", "e", ":">> }

\* /\b(git:|github:|path:|source:)/.test(line)
hasAltSourceTest(line) ==
  \E p \in 1..Len(line) :
    /\ CharAt(line, p - 1) \notin WordChars
    /\ \E mk \in AltSourceMarkers : StartsWithAt(line, p, mk)

\* /gem\s+['"]([^'"]+)['"]/ tried at position p: the positions of the
\* opening and closing quote of the name
GemNameMatchAt(line, p) ==
  LET a == p + 3
      b == SkipIn(line, a, WhiteSpace)
      c == SkipNotIn(line, b + 1, Quotes)
  IN  [ok |-> /\ StartsWithAt(line, p, GEM)
              /\ b > a
              /\ CharAt(line, b) \in Quotes
              /\ c > b + 1
              /\ c <= Len(line),
       open |-> b,
       close |-> c]

\* line.match(/gem\s+['"]([^'"]+)['"]/): the leftmost match
GemNameMatch(line) ==
  LET hits == {p \in 1..Len(line) : GemNameMatchAt(line, p).ok}
  IN  IF hits = {} THEN [ok |-> FALSE, open |-> 0, close |-> 0]
      ELSE GemNameMatchAt(line, CHOOSE p \in hits : \A q \in hits : p <= q)

\* an optional (?:\.[0-9]+) at position p: the position after it
OptionalComponent(line, p) ==
  LET d == SkipIn(line, p + 1, DigitChars)
  IN  IF CharAt(line, p) = "." /\ d > p + 1 THEN d ELSE p

\* /['"],\s*['"]([~>=<]*\s*)?([0-9]+\.[0-9]+(?:\.[0-9]+)?(?:\.[0-9]+)?)['"]/
\* tried at position p: where group 2 starts and ends
VersionMatchAt(line, p) ==
  LET q  == SkipIn(line, p + 2, WhiteSpace)
      r  == SkipIn(line, SkipIn(line, q + 1, OperatorChars), WhiteSpace)
      d1 == SkipIn(line, r, DigitChars)
      d2 == SkipIn(line, d1 + 1, DigitChars)
      d4 == OptionalComponent(line, OptionalComponent(line, d2))
  IN  [ok |-> /\ CharAt(line, p) \in Quotes
              /\ CharAt(line, p + 1) = ","
              /\ CharAt(line, q) \in Quotes
              /\ d1 > r
              /\ CharAt(line, d1) = "."
              /\ d2 > d1 + 1
              /\ CharAt(line, d4) \in Quotes,
       from |-> r,
       to |-> d4 - 1]

VersionMatch(line) ==
  LET hits == {p \in 1..Len(line) : VersionMatchAt(line, p).ok}
  IN  IF hits = {} THEN [ok |-> FALSE, from |-> 0, to |-> 0]
      ELSE VersionMatchAt(line, CHOOSE p \in hits : \A q \in hits : p <= q)

parseGemLine(line) ==
  LET m == GemNameMatch(line)
      v == VersionMatch(line)
  IN  IF ~m.ok
      THEN [gemName |-> Null, currentVersion |-> Null, hasAltSource |-> FALSE]
      ELSE [gemName |-> SubSeq(line, m.open + 1, m.close - 1),
            currentVersion |-> IF v.ok THEN SubSeq(line, v.from, v.to) ELSE Null,
            hasAltSource |-> hasAltSourceTest(line)]

\* the test of update() that sends a line to the parser
IsGemLine(line) ==
  /\ startsWith(trim(line), GEM_SP)
  /\ ~(includes(line, HASH) /\ indexOf(line, HASH) < indexOf(line, GEM))

-----------------------------------------------------------------------------
(* fetchLatestVersionInfo: what the response handlers resolve the promise  *)
(* with.  A response is [kind, status, body]; a body is [json, records]:   *)
(* json = "unparsable" (JSON.parse throws), "value" (valid JSON that is    *)
(* not an array) or "array" of records [number, prerelease, created_at].   *)
(* A record's number is a version string or Undefined; its created_at is   *)
(* an instant, or InvalidDate when the field is absent or is no date.      *)

NullInfo == [ok |-> FALSE, latest |-> Null, majorReleaseDate |-> InvalidDate]

MajorOf(number) == parseInt(split(number, ".")[1])

\* the "end" handler with status 200 and a body that JSON.parse accepts as
\* an array of objects
StableInfo(records) ==
  LET stableVersions == SelectSeq(records, LAMBDA v : ~v.prerelease)
      latestVersion == stableVersions[1].number
      majorVersion == MajorOf(latestVersion)
      majorVersions ==
        SelectSeq(stableVersions,
                  LAMBDA v : StrictEq(MajorOf(v.number), majorVersion))
  IN  IF Len(stableVersions) = 0 THEN NullInfo
      \* undefined.split throws, inside the try block
      ELSE IF \E k \in 1..Len(stableVersions) :
                 stableVersions[k].number = Undefined THEN NullInfo
      \* majorVersions[-1].created_at throws, inside the try block
      ELSE IF Len(majorVersions) = 0 THEN NullInfo
      ELSE [ok |-> TRUE,
            latest |-> latestVersion,
            majorReleaseDate |-> majorVersions[Len(majorVersions)].created_at]

fetchLatestVersionInfo(resp) ==
  IF resp.kind \in {"error", "timeout"} THEN NullInfo
  ELSE IF resp.status # 200 THEN NullInfo
  ELSE IF resp.body.json # "array" THEN NullInfo
  ELSE StableInfo(resp.body.records)

-----------------------------------------------------------------------------
(* determineTargetVersion                                                  *)

MAJOR_VERSION_AGE_THRESHOLD == 180

\* Math.floor((today - majorReleaseDate) / (1000 * 60 * 60 * 24)), NaN for
\* an Invalid Date.  The difference is a whole number of days and a part
\* of a day.  A release date is within the range of Date (100,000,000 days
\* either side of the epoch) and the clock reads a present-day instant, so
\* the difference is below 2^53 ms (exact) and below 2^27 days, where the
\* double quotient is never rounded onto the next whole day.
daysSince(today, majorReleaseDate) ==
  IF majorReleaseDate.nan THEN [nan |-> TRUE, val |-> 0]
  ELSE [nan |-> FALSE,
        val |-> today.day - majorReleaseDate.day
                - (IF today.ms < majorReleaseDate.ms THEN 1 ELSE 0)]

\* a > b for a count of days (or NaN) a and an integer b
Greater(a, b) == ~a.nan /\ a.val > b

\* a >= b for a count of days (or NaN) a and an integer b
GreaterEq(a, b) == ~a.nan /\ a.val >= b

\* determineTargetVersion with the age compared by > instead of >=
determineTargetVersionStrict(currentVersion, latestVersion, majorReleaseDate, today) ==
  LET daysSinceMajorRelease == daysSince(today, majorReleaseDate)
  IN  IF currentVersion = Null THEN latestVersion
      ELSE IF StrictEq(MajorOf(currentVersion), MajorOf(latestVersion))
           THEN latestVersion
      ELSE IF Greater(daysSinceMajorRelease, MAJOR_VERSION_AGE_THRESHOLD)
           THEN latestVersion
      ELSE currentVersion

determineTargetVersion(currentVersion, latestVersion, majorReleaseDate, today) ==
  LET daysSinceMajorRelease == daysSince(today, majorReleaseDate)
      currentMajor == MajorOf(currentVersion)
      latestMajor == MajorOf(latestVersion)
  IN  IF currentVersion = Null THEN latestVersion
      ELSE IF StrictEq(currentMajor, latestMajor) THEN latestVersion
      ELSE IF GreaterEq(daysSinceMajorRelease, MAJOR_VERSION_AGE_THRESHOLD)
           THEN latestVersion
      ELSE currentVersion

-----------------------------------------------------------------------------
(* buildGemLine                                                            *)

\* originalLine.match(/^\s*/)[0]
indentOf(originalLine) ==
  SubSeq(originalLine, 1, SkipIn(originalLine, 1, WhiteSpace) - 1)

\* originalLine.includes(`'${gemName}'`) ? "'" : '"'
quoteOf(originalLine, gemName) ==
  IF includes(originalLine, <<SQ>> \o gemName \o <<SQ>>) THEN SQ ELSE DQ

\* gem\s+['"]<gemName, escaped, so matched literally>['"]\s*(.*) tried at
\* position p: where group 1 starts and ends
AfterGemMatchAt(originalLine, gemName, p) ==
  LET a == p + 3
      b == SkipIn(originalLine, a, WhiteSpace)
      c == b + 1 + Len(gemName)
      e == SkipIn(originalLine, c + 1, WhiteSpace)
  IN  [ok |-> /\ StartsWithAt(originalLine, p, GEM)
              /\ b > a
              /\ CharAt(originalLine, b) \in Quotes
              /\ StartsWithAt(originalLine, b + 1, gemName)
              /\ CharAt(originalLine, c) \in Quotes,
       from |-> e,
       to |-> SkipNotIn(originalLine, e, LineTerminators) - 1]

afterGemOf(originalLine, gemName) ==
  LET hits == {p \in 1..Len(originalLine) :
                 AfterGemMatchAt(originalLine, gemName, p).ok}
      m == AfterGemMatchAt(originalLine, gemName,
                           CHOOSE p \in hits : \A q \in hits : p <= q)
  IN  IF hits = {} THEN <<>> ELSE SubSeq(originalLine, m.from, m.to)

\* stripConstraint that leaves the existing constraint in place
stripConstraintKeep(afterGem) == afterGem

\* afterGem.replace(/^,\s*['"][^'"]*['"]/, "")
stripConstraint(afterGem) ==
  LET q == SkipIn(afterGem, 2, WhiteSpace)
      r == SkipNotIn(afterGem, q + 1, Quotes)
  IN  IF /\ CharAt(afterGem, 1) = ","
         /\ CharAt(afterGem, q) \in Quotes
         /\ r <= Len(afterGem)
      THEN SubSeq(afterGem, r + 1, Len(afterGem))
      ELSE afterGem

buildGemLine(originalLine, gemName, version) ==
  LET indent == indentOf(originalLine)
      quote == quoteOf(originalLine, gemName)
      afterGem == stripConstraint(afterGemOf(originalLine, gemName))
      newLine == indent \o GEM_SP \o <<quote>> \o gemName \o <<quote>>
                 \o <<",", " ", quote, "~", ">", " ">> \o version \o <<quote>>
  IN  IF Len(trim(afterGem)) > 0 THEN newLine \o trimEnd(afterGem) ELSE newLine

-----------------------------------------------------------------------------
(* The texts the model is run on.                                          *)

AB == <<"a", "b">>
V10 == <<"1", ".", "0">>
V20 == <<"2", ".", "0">>
V21 == <<"2", ".", "1">>
V300 == <<"3", ".", "0", ".", "0">>
V31 == <<"3", ".", "1">>

\* gem "ab"
LineUnpinned ==
  <<"g", "e", "m", " ", DQ, "a", "b", DQ>>
\*   gem 'ab', '~> 1.0'
LinePinned ==
  <<" ", " ", "g", "e", "m", " ", SQ, "a", "b", SQ, ",", " ", SQ, "~", ">",
  " ", "1", ".", "0", SQ>>
\* # gem "ab", "1.0"
LineCommented ==
  <<"#", " ", "g", "e", "m", " ", DQ, "a", "b", DQ, ",", " ", DQ, "1", ".",
  "0", DQ>>
\* gem "ab", "2.0", git: "u"
LineGit ==
  <<"g", "e", "m", " ", DQ, "a", "b", DQ, ",", " ", DQ, "2", ".", "0", DQ,
  ",", " ", "g", "i", "t", ":", " ", DQ, "u", DQ>>
LineEmpty == <<>>
\* gem x gem "ab"
LineNested ==
  <<"g", "e", "m", " ", "x", " ", "g", "e", "m", " ", DQ, "a", "b", DQ>>

LineSet ==
  {LineUnpinned, LinePinned, LineCommented, LineGit, LineEmpty, LineNested}

\* the longest manifest, in lines
MaxLines == 2

RECURSIVE LineSeqs(_)
LineSeqs(n) ==
  IF n = 0 THEN {<<>>}
  ELSE {Append(ls, l) : ls \in LineSeqs(n - 1), l \in LineSet}

\* the manifest texts: one to MaxLines lines joined by line feeds
Gemfiles == {join(ls, LF) : ls \in UNION {LineSeqs(n) : n \in 1..MaxLines}}

\* a reading of new Date(): day 400, 5000 ms into the day
Today == [nan |-> FALSE, day |-> 400, ms |-> 5000]
\* the readings of new Date(): the clock is the machine's, and nothing
\* orders two readings
ClockReadings == {Today, [Today EXCEPT !.ms = @ + 1]}
\* release instants: exactly the threshold before Today, one millisecond
\* less, and older
AtThreshold == [Today EXCEPT !.day = @ - MAJOR_VERSION_AGE_THRESHOLD]
JustUnder == [AtThreshold EXCEPT !.ms = @ + 1]
Older == [Today EXCEPT !.day = @ - 200]

RECURSIVE SeqsUpTo(_, _)
SeqsUpTo(S, n) ==
  IF n = 0 THEN {<<>>}
  ELSE SeqsUpTo(S, n - 1) \cup
       {Append(h, r) : h \in {x \in SeqsUpTo(S, n - 1) : Len(x) = n - 1}, r \in S}

Bodies(recordSet, n) ==
  {[json |-> "unparsable", records |-> <<>>],
   [json |-> "value", records |-> <<>>]} \cup
  {[json |-> "array", records |-> h] : h \in SeqsUpTo(recordSet, n)}

ResponsesOf(bodySet) ==
  {[kind |-> k, status |-> 0, body |-> [json |-> "unparsable", records |-> <<>>]] :
     k \in {"error", "timeout"}} \cup
  {[kind |-> "end", status |-> 200, body |-> b] : b \in bodySet} \cup
  {[kind |-> "end", status |-> 404, body |-> b] :
     b \in {x \in bodySet : Len(x.records) <= 1}}

\* the longest release history answered during a run of update()
MaxRunHist == 1

RunRecords ==
  [number : {V21, Undefined}, prerelease : BOOLEAN,
   created_at : {JustUnder, InvalidDate}]

RunResponses == ResponsesOf(Bodies(RunRecords, MaxRunHist))

\* the longest release history handed to the resolver on its own
MaxHist == 2

HistRecords ==
  [number : {V21, V300, V31, Undefined}, prerelease : BOOLEAN,
   created_at : {AtThreshold, JustUnder, Older, InvalidDate}]

HistResponses == ResponsesOf(Bodies(HistRecords, MaxHist))

CurrentVersions == {Null, V10, V20, V300}

\* what may follow the name on a declaration line
\* []
AfterNone ==
  <<>>
\* [, "1.0"]
AfterPlain ==
  <<",", " ", DQ, "1", ".", "0", DQ>>
\* [, '~> 2.0']
AfterSingle ==
  <<",", " ", SQ, "~", ">", " ", "2", ".", "0", SQ>>
\* [,  "~> 2.0"]
AfterAligned ==
  <<",", " ", " ", DQ, "~", ">", " ", "2", ".", "0", DQ>>
\* [ # c]
AfterComment ==
  <<" ", "#", " ", "c">>
\* [, require: 'ab']
AfterRequire ==
  <<",", " ", "r", "e", "q", "u", "i", "r", "e", ":", " ", SQ, "a", "b",
  SQ>>
\* [, "~> 2.0", require: false ]
AfterTrailing ==
  <<",", " ", DQ, "~", ">", " ", "2", ".", "0", DQ, ",", " ", "r", "e", "q",
  "u", "i", "r", "e", ":", " ", "f", "a", "l", "s", "e", " ">>
\* [, '1.0'\r]
AfterCR ==
  <<",", " ", SQ, "1", ".", "0", SQ, CR>>
\* [, "~> 2.0" # c]
AfterPinnedComment ==
  <<",", " ", DQ, "~", ">", " ", "2", ".", "0", DQ, " ", "#", " ", "c">>

AfterSet ==
  {AfterNone, AfterPlain, AfterSingle, AfterAligned, AfterComment, AfterRequire,
   AfterTrailing, AfterCR, AfterPinnedComment}

\* the lines handed to the rebuilder on its own: those update() rebuilds
BuildLines ==
  {l \in {ind \o pre \o GEM \o gap \o <<q>> \o AB \o <<q>> \o aft :
            ind \in {<<>>, <<" ", " ">>, <<FF, NBSP>>},
            pre \in {<<>>, <<"g", "e", "m", " ", "x", " ">>},
            gap \in {<<" ">>, <<" ", " ">>},
            q \in Quotes,
            aft \in AfterSet} :
     IsGemLine(l) /\ parseGemLine(l).gemName # Null /\ ~parseGemLine(l).hasAltSource}

BuildVersions == {V20, V31}

NoResponse ==
  [kind |-> "none", status |-> 0, body |-> [json |-> "unparsable", records |-> <<>>]]

NoArg == [line |-> <<>>, version |-> <<>>]

-----------------------------------------------------------------------------
(* update()                                                                *)

Init ==
  /\ gemfileContent \in Gemfiles
  /\ pc = "start"
  /\ lines = <<>>
  /\ idx = 0
  /\ updatedLines = <<>>
  /\ inflight = {}
  /\ fetchLog = <<>>
  /\ response = NoResponse
  /\ latestInfo = NullInfo
  /\ resolveLog = {}
  /\ rebuildLog = {}
  /\ written = gemfileContent
  /\ writes = 0
  /\ arg = NoArg
  /\ ret = <<>>
  /\ ret2 = <<>>
  /\ clock = Today

\* NeedsFetch without the test of hasAltSource
NeedsFetchAny(parsed) == parsed.gemName # Null

\* gemName && !hasAltSource
NeedsFetch(parsed) == parsed.gemName # Null /\ ~parsed.hasAltSource

\* the for-of loop has lines left
InLoop == pc = "loop" /\ idx <= Len(lines)

\* the for-of loop is over
LoopOver == pc = "loop" /\ idx > Len(lines)

\* const lines = this.gemfileContent.split("\n")
UpdateStart ==
  /\ pc = "start"
  /\ lines' = split(gemfileContent, LF)
  /\ idx' = 1
  /\ pc' = "loop"
  /\ UNCHANGED <<gemfileContent, updatedLines, inflight, fetchLog, response,
                 latestInfo, resolveLog, rebuildLog, written, writes, arg, ret, ret2, clock>>

\* the outer else: not a gem line
PassNonGem ==
  /\ InLoop
  /\ ~IsGemLine(lines[idx])
  /\ updatedLines' = Append(updatedLines, lines[idx])
  /\ idx' = idx + 1
  /\ UNCHANGED <<gemfileContent, pc, lines, inflight, fetchLog, response,
                 latestInfo, resolveLog, rebuildLog, written, writes, arg, ret, ret2, clock>>

\* PassSkipped without the push of the line
PassSkippedDrop ==
  /\ pc = "loop" /\ idx <= Len(lines)
  /\ IsGemLine(lines[idx])
  /\ ~(parseGemLine(lines[idx]).gemName # Null /\ ~parseGemLine(lines[idx]).hasAltSource)
  /\ idx' = idx + 1
  /\ UNCHANGED <<gemfileContent, pc, lines, updatedLines, inflight, fetchLog,
                 response, latestInfo, resolveLog, rebuildLog, written, writes,
                 arg, ret, ret2, clock>>

\* the inner else: no name, or an alternative source
PassSkipped ==
  /\ InLoop
  /\ IsGemLine(lines[idx])
  /\ ~NeedsFetch(parseGemLine(lines[idx]))
  /\ updatedLines' = Append(updatedLines, lines[idx])
  /\ idx' = idx + 1
  /\ UNCHANGED <<gemfileContent, pc, lines, inflight, fetchLog, response,
                 latestInfo, resolveLog, rebuildLog, written, writes, arg, ret, ret2, clock>>

\* IssueFetch without the await: the request is sent and the loop goes on
IssueFetchNoAwait ==
  /\ pc = "loop" /\ idx <= Len(lines)
  /\ IsGemLine(lines[idx])
  /\ parseGemLine(lines[idx]).gemName # Null
  /\ ~parseGemLine(lines[idx]).hasAltSource
  /\ inflight' = inflight \cup {idx}
  /\ fetchLog' = Append(fetchLog, idx)
  /\ updatedLines' = Append(updatedLines, lines[idx])
  /\ idx' = idx + 1
  /\ UNCHANGED <<gemfileContent, pc, lines, response, latestInfo, resolveLog,
                 rebuildLog, written, writes, arg, ret, ret2, clock>>

\* await this.fetchLatestVersionInfo(gemName): the request is sent and
\* update() is suspended
IssueFetch ==
  /\ InLoop
  /\ IsGemLine(lines[idx])
  /\ NeedsFetch(parseGemLine(lines[idx]))
  /\ inflight' = inflight \cup {idx}
  /\ fetchLog' = Append(fetchLog, idx)
  /\ pc' = "await"
  /\ UNCHANGED <<gemfileContent, lines, idx, updatedLines, response, latestInfo,
                 resolveLog, rebuildLog, written, writes, arg, ret, ret2, clock>>

\* the response handlers: "end", "error" or "timeout" resolves the promise
FetchSettle ==
  /\ pc = "await"
  /\ \E resp \in RunResponses :
       /\ response' = resp
       /\ latestInfo' = fetchLatestVersionInfo(resp)
  /\ inflight' = inflight \ {idx}
  /\ pc' = "resume"
  /\ UNCHANGED <<gemfileContent, lines, idx, updatedLines, fetchLog, resolveLog,
                 rebuildLog, written, writes, arg, ret, ret2, clock>>

\* update() resumes with latestInfo; determineTargetVersion reads the
\* clock (new Date())
Resume ==
  /\ pc = "resume"
  /\ IF latestInfo.ok
     THEN \E today \in ClockReadings :
            LET parsed == parseGemLine(lines[idx])
                targetVersion ==
                  determineTargetVersion(parsed.currentVersion, latestInfo.latest,
                                         latestInfo.majorReleaseDate, today)
            IN  /\ clock' = today
                /\ updatedLines' =
                     Append(updatedLines,
                            buildGemLine(lines[idx], parsed.gemName, targetVersion))
                /\ resolveLog' = resolveLog \cup {idx}
                /\ rebuildLog' = rebuildLog \cup {idx}
     ELSE /\ updatedLines' = Append(updatedLines, lines[idx])
          /\ UNCHANGED <<resolveLog, rebuildLog, clock>>
  /\ idx' = idx + 1
  /\ pc' = "loop"
  /\ response' = NoResponse
  /\ UNCHANGED <<gemfileContent, lines, inflight, fetchLog, latestInfo, written,
                 writes, arg, ret, ret2>>

\* fs.writeFileSync(this.gemfilePath, updatedLines.join("\n"))
WriteFile ==
  /\ LoopOver
  /\ written' = join(updatedLines, LF)
  /\ writes' = writes + 1
  /\ pc' = "done"
  /\ UNCHANGED <<gemfileContent, lines, idx, updatedLines, inflight, fetchLog,
                 response, latestInfo, resolveLog, rebuildLog, arg, ret, ret2, clock>>

Next ==
  \/ UpdateStart
  \/ PassNonGem
  \/ PassSkipped
  \/ IssueFetch
  \/ FetchSettle
  \/ Resume
  \/ WriteFile

Spec == Init /\ [][Next]_vars

-----------------------------------------------------------------------------
(* The resolver on its own: one response is handled by                     *)
(* fetchLatestVersionInfo and, when it yields a history, the target is     *)
(* decided by determineTargetVersion.                                      *)

Idle ==
  /\ gemfileContent = <<>>
  /\ lines = <<>>
  /\ idx = 0
  /\ updatedLines = <<>>
  /\ inflight = {}
  /\ fetchLog = <<>>
  /\ response = NoResponse
  /\ latestInfo = NullInfo
  /\ resolveLog = {}
  /\ rebuildLog = {}
  /\ written = <<>>
  /\ writes = 0

IdleVars ==
  <<gemfileContent, lines, idx, updatedLines, inflight, fetchLog, response,
    latestInfo, resolveLog, rebuildLog, written, writes>>

InitResolve ==
  /\ Idle
  /\ pc = "fetch"
  /\ arg \in [currentVersion : CurrentVersions, resp : HistResponses]
  /\ ret = NullInfo
  /\ ret2 = <<>>
  /\ clock \in ClockReadings

ResolveFetch ==
  /\ pc = "fetch"
  /\ ret' = fetchLatestVersionInfo(arg.resp)
  /\ pc' = "fetched"
  /\ UNCHANGED <<IdleVars, arg, ret2, clock>>

ResolveTarget ==
  /\ pc = "fetched"
  /\ ret.ok
  /\ ret2' = determineTargetVersion(arg.currentVersion, ret.latest,
                                    ret.majorReleaseDate, clock)
  /\ pc' = "decided"
  /\ UNCHANGED <<IdleVars, arg, ret, clock>>

NextResolve == ResolveFetch \/ ResolveTarget

SpecResolve == InitResolve /\ [][NextResolve]_vars

-----------------------------------------------------------------------------
(* The rebuilder on its own: a declaration line is rebuilt, and the result *)
(* is rebuilt again with the same name and version.                        *)

InitBuild ==
  /\ Idle
  /\ pc = "build"
  /\ arg \in [line : BuildLines, version : BuildVersions]
  /\ ret = <<>>
  /\ ret2 = <<>>
  /\ clock = Today

BuildOnce ==
  /\ pc = "build"
  /\ ret' = buildGemLine(arg.line, parseGemLine(arg.line).gemName, arg.version)
  /\ pc' = "built"
  /\ UNCHANGED <<IdleVars, arg, ret2, clock>>

BuildAgain ==
  /\ pc = "built"
  /\ ret2' = buildGemLine(ret, parseGemLine(arg.line).gemName, arg.version)
  /\ pc' = "rebuilt"
  /\ UNCHANGED <<IdleVars, arg, ret, clock>>

NextBuild == BuildOnce \/ BuildAgain

SpecBuild == InitBuild /\ [][NextBuild]_vars

-----------------------------------------------------------------------------
(* Properties of update()                                     (Spec)       *)

\* the versions a response of the run can name
RunVersions == {r.number : r \in RunRecords} \ {Undefined}

\* the rebuilt forms of a line: buildGemLine with the parsed name and a
\* version that is either answered by the registry or the line's own
RebuiltForms(line) ==
  LET parsed == parseGemLine(line)
  IN  {buildGemLine(line, parsed.gemName, v) :
         v \in RunVersions \cup ({parsed.currentVersion} \ {Null})}

\* C1: update() produces exactly one output line per input line, in order:
\* output line j is input line j, unchanged or rebuilt, whatever the
\* responses were; the text written has as many lines as the text read.
C1_OneOutputPerLine ==
  /\ pc = "loop" => Len(updatedLines) = idx - 1
  /\ pc \in {"await", "resume"} => Len(updatedLines) = idx - 1
  /\ \A j \in 1..Len(updatedLines) :
       /\ j <= Len(lines)
       /\ \/ updatedLines[j] = lines[j]
          \/ updatedLines[j] \in RebuiltForms(lines[j])
  /\ pc = "done" =>
       /\ Len(updatedLines) = Len(lines)
       /\ split(written, LF) = updatedLines
       /\ Len(split(written, LF)) = Len(split(gemfileContent, LF))

\* a finished run of two lines, one passed through and one rewritten
C1_Witness ==
  /\ pc = "done"
  /\ Len(lines) = 2
  /\ \E j, k \in 1..2 :
       /\ updatedLines[j] # lines[j]
       /\ updatedLines[k] = lines[k]
       /\ IsGemLine(lines[k])

\* C2: a line on which the parser reports hasAltSource is never fetched
\* for, never resolved, never rebuilt, and is emitted as it was read.
C2_AltSourceUntouched ==
  \A j \in 1..Len(lines) :
    parseGemLine(lines[j]).hasAltSource =>
      /\ \A k \in 1..Len(fetchLog) : fetchLog[k] # j
      /\ j \notin resolveLog
      /\ j \notin rebuildLog
      /\ j <= Len(updatedLines) => updatedLines[j] = lines[j]

\* a finished run that rewrote a line and met an alternative-source
\* declaration
C2_Witness ==
  /\ pc = "done"
  /\ rebuildLog # {}
  /\ \E j \in 1..Len(lines) :
       /\ IsGemLine(lines[j])
       /\ parseGemLine(lines[j]).hasAltSource
       /\ updatedLines[j] = lines[j]

\* the failure signals of a fetch: no answer, a non-200 status, a body that
\* is no JSON, a body that is no list of release records (not an array, or
\* a record without its number or its created_at), no stable release
IsFailureSignal(resp) ==
  \/ resp.kind \in {"error", "timeout"}
  \/ resp.status # 200
  \/ resp.body.json # "array"
  \/ \E k \in 1..Len(resp.body.records) :
       \/ resp.body.records[k].number = Undefined
       \/ resp.body.records[k].created_at.nan
  \/ \A k \in 1..Len(resp.body.records) : resp.body.records[k].prerelease

\* C3: whenever the fetch for a declaration ends in a failure signal, the
\* line is passed through unchanged and the loop goes on to the next line.
C3_FailurePassesThrough ==
  [][(pc = "resume" /\ IsFailureSignal(response)) =>
       /\ updatedLines' = Append(updatedLines, lines[idx])
       /\ idx' = idx + 1
       /\ pc' = "loop"]_vars

\* gem, white space and a quoted identifier at the start of the line once
\* its leading white space is dropped, and no # before the keyword
StrictDeclaration(line) ==
  LET t == SubSeq(line, SkipIn(line, 1, WhiteSpace), Len(line))
  IN  /\ GemNameMatchAt(t, 1).ok
      /\ ~(includes(line, HASH) /\ indexOf(line, HASH) < indexOf(line, GEM))

\* C8: only a line that begins (after leading white space) with gem
\* followed at once by a quoted identifier, with no # before it, is fetched
\* for or rewritten; every other line is emitted unchanged.
C8_OnlyDeclarationsTreated ==
  \A j \in 1..Len(lines) :
    ~StrictDeclaration(lines[j]) =>
      /\ \A k \in 1..Len(fetchLog) : fetchLog[k] # j
      /\ j \notin rebuildLog
      /\ j <= Len(updatedLines) => updatedLines[j] = lines[j]

\* C10: at most one fetch is in flight; fetches are issued in line order;
\* a fetch is issued only when the output of every earlier line has been
\* appended; the manifest is written once, after the last line.
C10_SequentialRun ==
  /\ Cardinality(inflight) <= 1
  /\ \A j \in inflight : Len(updatedLines) = j - 1
  /\ \A a, b \in 1..Len(fetchLog) : a < b => fetchLog[a] < fetchLog[b]
  /\ \A k \in 1..Len(fetchLog) :
       /\ fetchLog[k] <= Len(updatedLines) + 1
       /\ k < Len(fetchLog) => fetchLog[k] <= Len(updatedLines)
  /\ writes <= 1
  /\ writes = 1 <=> pc = "done"
  /\ writes = 0 => written = gemfileContent
  /\ writes = 1 =>
       /\ inflight = {}
       /\ Len(updatedLines) = Len(lines)
       /\ written = join(updatedLines, LF)

\* a finished run that fetched for both of its lines
C10_Witness ==
  /\ pc = "done"
  /\ writes = 1
  /\ Len(fetchLog) = 2

-----------------------------------------------------------------------------
(* Properties of the resolver                                 (SpecResolve) *)

\* the text before the first dot
LeadingComponent(v) == SubSeq(v, 1, SkipNotIn(v, 1, {"."}) - 1)

\* instant a is not after instant b
NotAfter(a, b) == a.day < b.day \/ (a.day = b.day /\ a.ms <= b.ms)

\* the date is at least 180 days before the clock read by the call
AtLeast180Days(date) ==
  ~date.nan /\ NotAfter([date EXCEPT !.day = @ + 180], clock)

\* C4: the target is the latest version when the constraint is absent, or
\* has the latest's leading component, or the major line is at least 180
\* days old; it is the constraint itself when pinned to another major whose
\* successor is younger than 180 days; it is never anything else.
C4_TargetDecision ==
  pc = "decided" =>
    LET cur == arg.currentVersion
        latest == ret.latest
        date == ret.majorReleaseDate
        sameMajor == cur # Null /\ LeadingComponent(cur) = LeadingComponent(latest)
    IN  /\ (cur = Null \/ sameMajor \/ AtLeast180Days(date)) => ret2 = latest
        /\ (cur # Null /\ ~sameMajor /\ ~date.nan /\ ~AtLeast180Days(date))
             => ret2 = cur
        /\ ret2 \in {latest, cur}

\* pinned to another major, and the latest major is exactly 180 days old
C4_Witness ==
  /\ pc = "decided"
  /\ arg.currentVersion = V10
  /\ ret.latest = V300
  /\ ret.majorReleaseDate = AtThreshold
  /\ clock = Today
  /\ ret2 = V300

\* the created_at of the stable records of the latest stable record's major
MajorLineDates(records) ==
  LET stable == SelectSeq(records, LAMBDA v : ~v.prerelease)
  IN  {stable[k].created_at :
         k \in {i \in 1..Len(stable) :
                  LeadingComponent(stable[i].number) =
                    LeadingComponent(stable[1].number)}}

\* C9: the date used for the age of the latest major line is the earliest
\* created_at among the stable records of that major, whatever their order.
C9_EarliestOfMajorLine ==
  (pc \in {"fetched", "decided"} /\ ret.ok
     /\ InvalidDate \notin MajorLineDates(arg.resp.body.records)) =>
    \A d \in MajorLineDates(arg.resp.body.records) :
      NotAfter(ret.majorReleaseDate, d)

-----------------------------------------------------------------------------
(* Properties of the rebuilder                                (SpecBuild)  *)

\* the text of the line after the closing quote of the name
AfterName(line) ==
  SubSeq(line, GemNameMatch(line).close + 1, Len(line))

\* where a comma-plus-quoted-string token ends when the text (after white
\* space) starts with one, 0 otherwise
ConstraintTokenEnd(t) ==
  LET e == SkipIn(t, 1, WhiteSpace)
      q == SkipIn(t, e + 1, WhiteSpace)
      r == SkipNotIn(t, q + 1, Quotes)
  IN  IF CharAt(t, e) = "," /\ CharAt(t, q) \in Quotes /\ r <= Len(t)
      THEN r ELSE 0

\* the text after the name, without the version-constraint token
RestOfLine(line) ==
  LET t == AfterName(line)
      r == ConstraintTokenEnd(t)
  IN  IF r = 0 THEN t ELSE SubSeq(t, r + 1, Len(t))

\* the declaration with the constraint ~> version, quoted with q
Declaration(q, gemName, version) ==
  GEM_SP \o <<q>> \o gemName \o <<q>> \o <<",", " ", q, "~", ">", " ">>
  \o version \o <<q>>

\* C5: the rebuilt line is the original with only the constraint token
\* changed: the leading white space, then the declaration, then all the
\* text that followed the name other than the old constraint token.
C5_OnlyConstraintChanges ==
  pc \in {"built", "rebuilt"} =>
    \E q \in Quotes :
      ret = indentOf(arg.line)
            \o Declaration(q, parseGemLine(arg.line).gemName, arg.version)
            \o RestOfLine(arg.line)

\* C6: the quote written around the name and the new constraint is the
\* quote that opens the name in the original line.
C6_QuoteOfName ==
  pc \in {"built", "rebuilt"} =>
    LET q == arg.line[GemNameMatch(arg.line).open]
    IN  StartsWithAt(ret, Len(indentOf(arg.line)) + 1,
                     Declaration(q, parseGemLine(arg.line).gemName, arg.version))

\* the line with every quote written as a double quote
CanonicalQuotes(line) ==
  [k \in 1..Len(line) |-> IF line[k] \in Quotes THEN DQ ELSE line[k]]

\* the constraint token after the name is ~> version
AtTarget(line, version) ==
  LET t == AfterName(line)
      e == SkipIn(t, 1, WhiteSpace)
      q == SkipIn(t, e + 1, WhiteSpace)
      r == ConstraintTokenEnd(t)
  IN  /\ r # 0
      /\ SubSeq(t, q + 1, r - 1) = <<"~", ">", " ">> \o version

\* C7 as stated: a line whose constraint is already the target is rebuilt
\* to itself, up to the quote style.
C7_AtTargetUnchanged ==
  (pc \in {"built", "rebuilt"} /\ AtTarget(arg.line, arg.version)) =>
    CanonicalQuotes(ret) = CanonicalQuotes(arg.line)

\* C7 as amended: rebuilding the rebuilder's own output, with the same name
\* and version, returns that output unchanged.
C7_RebuildFixpoint ==
  pc = "rebuilt" => ret2 = ret

\* a pinned line that the first rebuild changed, rebuilt again
C7_Witness ==
  /\ pc = "rebuilt"
  /\ parseGemLine(arg.line).currentVersion # Null
  /\ ret # arg.line
  /\ Len(RestOfLine(arg.line)) > 0
  /\ ret2 = ret

====
